---- MODULE Spec2Model ----
(***************************************************************************)
(* Model of the RhythmGame component (src/src/components/RhythmGame.tsx).  *)
(*                                                                         *)
(* Times are integers in milliseconds; vertical positions are integers in  *)
(* thousandths of a pixel, so that (time - currentTime) * speed is exact.  *)
(* List indices are 1-based; 0 plays the part of findIndex's -1.           *)
(*                                                                         *)
(* React state: the `notes` state has updates that are queued from the     *)
(* frame callback and from the MIDI load (they are applied at the next     *)
(* render) and updates queued from touch handlers (React renders at        *)
(* the end of such an event).  Queued updater functions are applied in     *)
(* the order they were queued, so the variable `notes` holds the state     *)
(* with every queued update applied, and `shown` holds the value of the    *)
(* last render, which is what the closures handleKeyDown and gameLoop      *)
(* read.  renderPending says that a render is scheduled.                   *)
(***************************************************************************)
EXTENDS Integers, Sequences, FiniteSets, TLC

VARIABLES
    midiUrl,        \* the midiUrl prop
    inflight,       \* loadMidi calls awaiting fetch: url -> number in flight
    urlChanges,     \* how many times the midiUrl prop has changed
    notes,          \* useState notes, every queued update applied
    shown,          \* notes as of the last render (closure value)
    renderPending,  \* a render of queued notes updates is scheduled
    isPlaying,      \* useState isPlaying
    score,          \* useState score
    startTimeRef,   \* startTimeRef.current (0 = unset)
    animationRef,   \* animationRef.current (0 = null)
    rafPending,     \* handles of the requested, not yet run frame callbacks
    canvasWidth,    \* canvas.width
    canvasHeight,   \* canvas.height
    now,            \* performance clock, ms since the page's time origin
    last,           \* the last event: [op, key, noteIndex, judged], and for
                    \* a frame the currentTime it computed and the y it drew
    lastParsed,     \* the note list of the last successful loadMidi
    mounted         \* the component is mounted

vars == << midiUrl, inflight, urlChanges, notes, shown, renderPending,
           isPlaying, score, startTimeRef, animationRef, rafPending,
           canvasWidth, canvasHeight, now, last, lastParsed, mounted >>

----------------------------------------------------------------------------
(* Bounds of the model *)

\* Date.now() - performance.now(): the epoch time of the page's time origin,
\* scaled down to keep the numbers small
TimeOrigin == 10000

\* how many times the parent may change the midiUrl prop
MaxUrlChanges == 1

\* frame-callback handles are 1..MaxHandles, reused once free
MaxHandles == 3

\* window.innerHeight
InnerHeight == 600

\* the instants (performance clock, ms) at which events are observed
Instants == {100, 600, 2150, 2200}

\* the instants of the timing specification: around the edges of the hit
\* window of a note at 2.0 s for a session latched at 100 ms
FineInstants == {100, 1949, 1950, 1951, 2100, 2249, 2250, 2251}

\* container.clientWidth values
ClientWidths == {400, 800}

Urls == {"a", "b"}

\* key codes of the four touch controls
TouchKeys == {37, 38, 39, 40}

\* key codes a keyboard may send
KeyboardKeys == {38, 65}

----------------------------------------------------------------------------
(* Program constants *)

hitWindow == 150        \* 0.15 s
speed == 200            \* pixels per second
\* a hit worth half the points
HitScoreHalved == 100 \div 2
HitScore == 100
InitialY == -100000     \* y: -100 px
HitLineOffset == 50     \* canvas.height - 50

ARROW_KEYS(k) ==
    CASE k = 37 -> "LEFT"
      [] k = 38 -> "UP"
      [] k = 39 -> "RIGHT"
      [] k = 40 -> "DOWN"
      [] OTHER  -> "undefined"

\* midi.tracks[0].notes of the file behind each url: time (ms) and pitch
MidiFile(u) ==
    IF u = "a"
    THEN << [time |-> TimeOrigin + 2000, midi |-> 38],
            [time |-> TimeOrigin + 2050, midi |-> 60],
            [time |-> TimeOrigin + 2100, midi |-> 38] >>
    ELSE << [time |-> 2000, midi |-> 38] >>

----------------------------------------------------------------------------
(* Helpers *)

Abs(x) == IF x < 0 THEN -x ELSE x

Min(x, y) == IF x < y THEN x ELSE y

\* midi.tracks[0].notes.map(note => ({time, direction, y: -100}))
MidiNotes(u) ==
    [i \in 1..Len(MidiFile(u)) |->
        [time |-> MidiFile(u)[i].time,
         direction |-> ARROW_KEYS(MidiFile(u)[i].midi),
         y |-> InitialY]]

\* Date.now()
DateNow == TimeOrigin + now

\* handleKeyDown: currentTime = (Date.now() - startTimeRef.current) / 1000, in ms
KeyCurrentTime == DateNow - startTimeRef

\* the latch without its guard: every frame takes its own timestamp
LatchedEveryFrame(timestamp) == timestamp

\* gameLoop(timestamp): startTimeRef.current after the latch
LatchedStart(timestamp) == IF startTimeRef = 0 THEN timestamp ELSE startTimeRef

\* gameLoop(timestamp): currentTime = (timestamp - startTimeRef.current) / 1000, in ms
LoopCurrentTime(timestamp) == timestamp - LatchedStart(timestamp)

\* the findIndex predicate of handleKeyDown
Qualifies(note, keyCode, currentTime) ==
    /\ ARROW_KEYS(keyCode) = note.direction
    /\ Abs(note.time - currentTime) < hitWindow

\* FindIndex with the direction test left out of the predicate
FindIndexTimeOnly(list, keyCode, currentTime) ==
    LET hits == {i \in 1..Len(list) : Abs(list[i].time - currentTime) < hitWindow}
    IN  IF hits = {} THEN 0
        ELSE CHOOSE i \in hits : \A j \in hits : i <= j

\* list.findIndex(...): the first qualifying index, 0 when there is none
FindIndex(list, keyCode, currentTime) ==
    LET hits == {i \in 1..Len(list) : Qualifies(list[i], keyCode, currentTime)}
    IN  IF hits = {} THEN 0
        ELSE CHOOSE i \in hits : \A j \in hits : i <= j

\* prev.filter((_, i) => i !== noteIndex)
RemoveAt(prev, noteIndex) ==
    IF noteIndex \in 1..Len(prev)
    THEN [j \in 1..(Len(prev) - 1) |-> IF j < noteIndex THEN prev[j] ELSE prev[j + 1]]
    ELSE prev

\* NoteY with the difference taken the other way round
NoteYReversed(note, currentTime, height) ==
    (currentTime - note.time) * speed + (height - HitLineOffset) * 1000

\* y: ((note.time - currentTime) * speed) + canvas.height - 50
NoteY(note, currentTime, height) ==
    (note.time - currentTime) * speed + (height - HitLineOffset) * 1000

\* Reposition writing the remaining time into the time field as well
RepositionShiftsTime(prev, currentTime, height) ==
    [i \in 1..Len(prev) |->
        [time |-> prev[i].time - currentTime,
         direction |-> prev[i].direction,
         y |-> NoteY(prev[i], currentTime, height)]]

\* Reposition dropping the notes whose hit window has passed
RepositionDropsMissed(prev, currentTime, height) ==
    LET kept == SelectSeq(prev, LAMBDA n : n.time + hitWindow >= currentTime)
    IN  [i \in 1..Len(kept) |->
            [time |-> kept[i].time,
             direction |-> kept[i].direction,
             y |-> NoteY(kept[i], currentTime, height)]]

\* prev.map(note => ({...note, y: ...}))
Reposition(prev, currentTime, height) ==
    [i \in 1..Len(prev) |->
        [time |-> prev[i].time,
         direction |-> prev[i].direction,
         y |-> NoteY(prev[i], currentTime, height)]]

\* handleResize: height = min(innerHeight * 0.7, width * 0.75)
ResizedHeight(width) == Min((InnerHeight * 7) \div 10, (width * 3) \div 4)

\* requestAnimationFrame: a handle that is neither pending nor held in the ref
NewHandle(pending, ref) ==
    CHOOSE h \in 1..MaxHandles :
        /\ h \notin pending
        /\ h # ref
        /\ \A g \in 1..MaxHandles : (g \notin pending /\ g # ref) => h <= g

\* the effect without the cancel in its cleanup
GameLoopEffectNoCancel(wasPlaying, playing, ref, pending) ==
    IF playing
    THEN LET h == NewHandle(pending, ref) IN << h, pending \cup {h} >>
    ELSE << ref, pending >>

\* the effect re-run cancelling the frame and requesting none
GameLoopEffectNoRequest(wasPlaying, playing, ref, pending) ==
    << ref, IF wasPlaying /\ ref # 0 THEN pending \ {ref} ELSE pending >>

\* The game-loop effect [isPlaying, notes] re-run at a render: the cleanup of
\* the previous run (it exists when that run passed its guard) cancels the
\* handle in animationRef, then the body requests a frame when playing.
\* Gives << animationRef, rafPending >> after the effect.
GameLoopEffect(wasPlaying, playing, ref, pending) ==
    LET cleaned == IF wasPlaying /\ ref # 0 THEN pending \ {ref} ELSE pending
    IN  IF playing
        THEN LET h == NewHandle(cleaned, ref) IN << h, cleaned \cup {h} >>
        ELSE << ref, cleaned >>

Event(op, key, idx, judged) == [op |-> op, key |-> key, noteIndex |-> idx, judged |-> judged]

\* notes.forEach(note => drawArrow(x, note.y, note.direction)): the y drawn
DrawnY(list) == [i \in 1..Len(list) |-> list[i].y]

\* the event of a frame: the currentTime it computed and the y it drew
FrameEvent(currentTime, drawn) ==
    [op |-> "frame", key |-> 0, noteIndex |-> 0, judged |-> FALSE,
     currentTime |-> currentTime, drawn |-> drawn]

----------------------------------------------------------------------------
(* Initial state: the component is mounted, handleResize has run once and  *)
(* the first loadMidi is awaiting its fetch.                               *)

Init ==
    /\ midiUrl \in Urls
    /\ inflight = [u \in Urls |-> IF u = midiUrl THEN 1 ELSE 0]
    /\ urlChanges = 0
    /\ notes = << >>
    /\ shown = << >>
    /\ renderPending = FALSE
    /\ isPlaying = FALSE
    /\ score = 0
    /\ startTimeRef = 0
    /\ animationRef = 0
    /\ rafPending = {}
    /\ canvasWidth \in ClientWidths
    /\ canvasHeight = ResizedHeight(canvasWidth)
    /\ now = 100
    /\ last = Event("mount", 0, 0, FALSE)
    /\ lastParsed = << >>
    /\ mounted = TRUE

----------------------------------------------------------------------------
(* Actions *)

\* time passes
Tick ==
    /\ \E t \in Instants : t > now /\ now' = t
    /\ last' = Event("tick", 0, 0, FALSE)
    /\ UNCHANGED << midiUrl, inflight, urlChanges, notes, shown, renderPending,
                    isPlaying, score, startTimeRef, animationRef, rafPending,
                    canvasWidth, canvasHeight, lastParsed, mounted >>

\* time passes, observed at the instants of the timing specification
TickFine ==
    /\ \E t \in FineInstants : t > now /\ now' = t
    /\ last' = Event("tick", 0, 0, FALSE)
    /\ UNCHANGED << midiUrl, inflight, urlChanges, notes, shown, renderPending,
                    isPlaying, score, startTimeRef, animationRef, rafPending,
                    canvasWidth, canvasHeight, lastParsed, mounted >>

\* window resize: handleResize
Resize ==
    /\ mounted
    /\ \E w \in ClientWidths :
          /\ w # canvasWidth
          /\ canvasWidth' = w
          /\ canvasHeight' = ResizedHeight(w)
    /\ last' = Event("resize", 0, 0, FALSE)
    /\ UNCHANGED << midiUrl, inflight, urlChanges, notes, shown, renderPending,
                    isPlaying, score, startTimeRef, animationRef, rafPending,
                    now, lastParsed, mounted >>

\* the scheduled render: queued updates become visible to the closures and
\* the game-loop effect re-runs (every queued update makes a new array)
Render ==
    /\ mounted
    /\ renderPending
    /\ shown' = notes
    /\ renderPending' = FALSE
    /\ LET e == GameLoopEffect(isPlaying, isPlaying, animationRef, rafPending)
       IN  animationRef' = e[1] /\ rafPending' = e[2]
    /\ last' = Event("render", 0, 0, FALSE)
    /\ UNCHANGED << midiUrl, inflight, urlChanges, notes, isPlaying, score,
                    startTimeRef, canvasWidth, canvasHeight, now, lastParsed, mounted >>

\* the parent passes another midiUrl: the load effect runs loadMidi again
ChangeUrl ==
    /\ mounted
    /\ urlChanges < MaxUrlChanges
    /\ \E u \in Urls :
          /\ u # midiUrl
          /\ midiUrl' = u
          /\ inflight' = [inflight EXCEPT ![u] = @ + 1]
    /\ urlChanges' = urlChanges + 1
    /\ last' = Event("url", 0, 0, FALSE)
    /\ UNCHANGED << notes, shown, renderPending, isPlaying, score, startTimeRef,
                    animationRef, rafPending, canvasWidth, canvasHeight, now,
                    lastParsed, mounted >>

\* loadMidi: fetch and parse succeeded, setNotes(midiNotes)
LoadDone ==
    /\ mounted
    /\ \E u \in Urls :
          /\ inflight[u] > 0
          /\ inflight' = [inflight EXCEPT ![u] = @ - 1]
          /\ notes' = MidiNotes(u)
          /\ lastParsed' = MidiNotes(u)
    /\ renderPending' = TRUE
    /\ last' = Event("loaded", 0, 0, FALSE)
    /\ UNCHANGED << midiUrl, urlChanges, shown, isPlaying, score, startTimeRef,
                    animationRef, rafPending, canvasWidth, canvasHeight, now, mounted >>

\* loadMidi: fetch or parse threw, the catch logs it
LoadFailed ==
    /\ mounted
    /\ \E u \in Urls :
          /\ inflight[u] > 0
          /\ inflight' = [inflight EXCEPT ![u] = @ - 1]
    /\ last' = Event("loadFailed", 0, 0, FALSE)
    /\ UNCHANGED << midiUrl, urlChanges, notes, shown, renderPending, isPlaying,
                    score, startTimeRef, animationRef, rafPending, canvasWidth,
                    canvasHeight, now, lastParsed, mounted >>

\* the Start Game button rendered whatever isPlaying is
StartButtonAlwaysShown == TRUE

\* the Start Game button is rendered
StartButtonShown == ~isPlaying

\* click on Start Game: handleStart, then React renders
HandleStart ==
    /\ mounted
    /\ StartButtonShown
    /\ isPlaying' = TRUE
    /\ score' = 0
    /\ startTimeRef' = 0
    /\ shown' = notes
    /\ renderPending' = FALSE
    /\ LET e == GameLoopEffect(isPlaying, TRUE, animationRef, rafPending)
       IN  animationRef' = e[1] /\ rafPending' = e[2]
    /\ last' = Event("start", 0, 0, FALSE)
    /\ UNCHANGED << midiUrl, inflight, urlChanges, notes, canvasWidth,
                    canvasHeight, now, lastParsed, mounted >>

\* a frame callback runs: gameLoop(timestamp)
GameLoop ==
    /\ \E h \in rafPending :
          LET g == NewHandle(rafPending \ {h}, animationRef)
          IN  /\ animationRef' = g
              /\ rafPending' = (rafPending \ {h}) \cup {g}
    /\ startTimeRef' = LatchedStart(now)
    /\ notes' = IF mounted
                 THEN Reposition(notes, LoopCurrentTime(now), canvasHeight)
                 ELSE notes
    /\ renderPending' = (mounted \/ renderPending)
    /\ last' = FrameEvent(LoopCurrentTime(now), DrawnY(shown))
    /\ UNCHANGED << midiUrl, inflight, urlChanges, shown, isPlaying, score,
                    canvasWidth, canvasHeight, now, lastParsed, mounted >>

\* handleKeyDown({keyCode}), then React renders when state was set
HandleKeyDown(keyCode) ==
    LET noteIndex == FindIndex(shown, keyCode, KeyCurrentTime)
    IN  IF isPlaying /\ noteIndex # 0
        THEN /\ score' = score + HitScore
             /\ notes' = RemoveAt(notes, noteIndex)
             /\ shown' = notes'
             /\ renderPending' = FALSE
             /\ LET e == GameLoopEffect(isPlaying, isPlaying, animationRef, rafPending)
                IN  animationRef' = e[1] /\ rafPending' = e[2]
             /\ last' = Event("touch", keyCode, noteIndex, TRUE)
        ELSE /\ last' = Event("touch", keyCode, 0, TRUE)
             /\ UNCHANGED << score, notes, shown, renderPending, animationRef,
                             rafPending >>

\* touch-start on one of the four mobile controls
TouchStart ==
    /\ mounted
    /\ \E k \in TouchKeys : HandleKeyDown(k)
    /\ UNCHANGED << midiUrl, inflight, urlChanges, isPlaying, startTimeRef,
                    canvasWidth, canvasHeight, now, lastParsed, mounted >>

\* a key-down handed to handleKeyDown, as a keydown listener would
KeyDownListened ==
    /\ mounted
    /\ \E k \in KeyboardKeys : HandleKeyDown(k)
    /\ UNCHANGED << midiUrl, inflight, urlChanges, isPlaying, startTimeRef,
                    canvasWidth, canvasHeight, now, lastParsed, mounted >>

\* a key goes down: the component registers no keydown listener
KeyDown ==
    /\ mounted
    /\ \E k \in KeyboardKeys : last' = Event("keydown", k, 0, FALSE)
    /\ UNCHANGED << midiUrl, inflight, urlChanges, notes, shown, renderPending,
                    isPlaying, score, startTimeRef, animationRef, rafPending,
                    canvasWidth, canvasHeight, now, lastParsed, mounted >>

\* loadMidi completes, either way, after the component was unmounted:
\* setNotes on an unmounted component does nothing
LoadAfterUnmount ==
    /\ ~mounted
    /\ \E u \in Urls :
          /\ inflight[u] > 0
          /\ inflight' = [inflight EXCEPT ![u] = @ - 1]
    /\ last' = Event("loadDropped", 0, 0, FALSE)
    /\ UNCHANGED << midiUrl, urlChanges, notes, shown, renderPending, isPlaying,
                    score, startTimeRef, animationRef, rafPending, canvasWidth,
                    canvasHeight, now, lastParsed, mounted >>

\* the component is torn down: the cleanup of the game-loop effect runs
Unmount ==
    /\ mounted
    /\ mounted' = FALSE
    /\ LET e == GameLoopEffect(isPlaying, FALSE, animationRef, rafPending)
       IN  animationRef' = e[1] /\ rafPending' = e[2]
    /\ last' = Event("unmount", 0, 0, FALSE)
    /\ UNCHANGED << midiUrl, inflight, urlChanges, notes, shown, renderPending,
                    isPlaying, score, startTimeRef, canvasWidth, canvasHeight,
                    now, lastParsed >>

Next ==
    \/ Tick
    \/ Resize
    \/ Render
    \/ ChangeUrl
    \/ LoadDone
    \/ LoadFailed
    \/ HandleStart
    \/ GameLoop
    \/ TouchStart
    \/ KeyDown
    \/ Unmount
    \/ LoadAfterUnmount

Spec == Init /\ [][Next]_vars

\* The timing specification: one track, no teardown, finer instants
NextTiming ==
    \/ TickFine
    \/ Resize
    \/ Render
    \/ LoadDone
    \/ HandleStart
    \/ GameLoop
    \/ TouchStart

SpecTiming == Init /\ [][NextTiming]_vars

----------------------------------------------------------------------------
(* Vocabulary of the properties *)

\* seconds (here ms) since the latched start timestamp, at the present instant
Elapsed == now - startTimeRef

\* the (time, direction) entries of a note list, positions left out
Entries(list) ==
    [i \in 1..Len(list) |-> [time |-> list[i].time, direction |-> list[i].direction]]

\* s can be had from t by deleting elements
IsSubsequence(s, t) ==
    \E f \in [1..Len(s) -> 1..Len(t)] :
        /\ \A i \in 1..Len(s) : t[f[i]] = s[i]
        /\ \A i, j \in 1..Len(s) : i < j => f[i] < f[j]

\* the indices of the notes of list with direction d within the hit window of time e
InWindow(list, d, e) ==
    {i \in 1..Len(list) : list[i].direction = d /\ Abs(list[i].time - e) < hitWindow}

----------------------------------------------------------------------------
(* Properties *)

\* C1: an input for direction d at elapsed time e of an active session, with
\* an active note of direction d within 0.15 s of e, adds exactly 100 to the
\* score and removes exactly one such note, leaving every other note.
C1_HitScoresAndRemovesOne ==
    [][ ( /\ last'.op = "touch"
          /\ isPlaying
          /\ startTimeRef # 0
          /\ ~renderPending
          /\ InWindow(notes, ARROW_KEYS(last'.key), Elapsed) # {} )
        => ( /\ score' = score + 100
             /\ \E i \in InWindow(notes, ARROW_KEYS(last'.key), Elapsed) :
                   notes' = RemoveAt(notes, i) ) ]_vars

\* C2: with the parsed track one Up note at 2.0 s, after start and the first
\* frame an Up input at elapsed 2.05 s makes the score 100 and empties the
\* active set, and an Up input at elapsed 2.10 s then changes neither.
C2_EndToEndUpNote ==
    [][ /\ ( /\ last'.op = "touch"
             /\ last'.key = 38
             /\ isPlaying
             /\ startTimeRef # 0
             /\ Elapsed = 2050
             /\ score = 0
             /\ Entries(lastParsed) = << [time |-> 2000, direction |-> "UP"] >>
             /\ Entries(notes) = Entries(lastParsed)
             /\ Entries(shown) = Entries(lastParsed) )
           => (score' = 100 /\ notes' = << >>)
        /\ ( /\ last'.op = "touch"
             /\ last'.key = 38
             /\ isPlaying
             /\ startTimeRef # 0
             /\ Elapsed = 2100
             /\ score = 100
             /\ Entries(lastParsed) = << [time |-> 2000, direction |-> "UP"] >>
             /\ notes = << >> )
           => (score' = 100 /\ notes' = << >>) ]_vars

\* C3: at every instant of an active session the time handleKeyDown compares
\* with note.time equals the time gameLoop would compute at that instant,
\* the time since the latched start timestamp.
C3_OneClock ==
    (isPlaying /\ startTimeRef # 0) =>
        (KeyCurrentTime = LoopCurrentTime(now) /\ KeyCurrentTime = Elapsed)

\* C4: during an active session every key-down of a directional key and
\* every touch-start on a directional control invokes handleKeyDown.
C4_BothSourcesJudged ==
    ( /\ isPlaying
      /\ last.op \in {"keydown", "touch"}
      /\ ARROW_KEYS(last.key) # "undefined" )
    => last.judged

C6_ScoreCountsRemovals ==
    [][ last'.op = "touch"
        => score' - score = 100 * (Len(notes) - Len(notes')) ]_vars

\* C7: the score is always a non-negative multiple of 100, and a step that is
\* not a start leaves it as it is or adds exactly 100.
C7_ScoreSteps ==
    /\ score >= 0
    /\ score % 100 = 0
    /\ [][ /\ score' >= 0
           /\ score' % 100 = 0
           /\ (last'.op # "start" => score' \in {score, score + 100}) ]_vars

C7_Witness ==
    /\ last.op = "touch"
    /\ last.noteIndex # 0
    /\ score = 200

\* C8: the active note list is always a subsequence of the list of the last
\* parse: the same (time, direction) entries in the parsed order, none added,
\* duplicated or reordered.
C8_ActiveIsSubsequence ==
    IsSubsequence(Entries(notes), Entries(lastParsed))

C8_Witness ==
    /\ last.op = "touch"
    /\ last.noteIndex # 0
    /\ Len(lastParsed) = 3
    /\ Len(notes) = 2
    /\ notes[1].y # InitialY

\* C9: after a failed load of the current midiUrl the note list is empty,
\* whatever was loaded before.
C9_FailedLoadEmpties ==
    [][ (last'.op = "loadFailed" /\ inflight'[midiUrl] < inflight[midiUrl])
        => notes' = << >> ]_vars

C11_FrameOnlyMovesNotes ==
    [][ last'.op = "frame"
        => ( /\ Entries(notes') = Entries(notes)
             /\ score' = score
             /\ shown' = shown
             /\ isPlaying' = isPlaying ) ]_vars

C11_Witness ==
    /\ last.op = "frame"
    /\ mounted
    /\ Len(notes) = 1
    /\ notes[1].time + hitWindow < last.currentTime
    /\ notes[1].y # InitialY

\* C12: the note a hit removes is the first note of the active list, as the
\* list is when the removal is applied, that has the pressed direction and
\* lies within 0.15 s of the input's time (whichever of the two clocks is
\* read as that time).
C12_RemovesFirstQualifying ==
    [][ (last'.op = "touch" /\ last'.noteIndex # 0)
        => \E e \in {KeyCurrentTime, Elapsed} :
              /\ FindIndex(notes, last'.key, e) # 0
              /\ notes' = RemoveAt(notes, FindIndex(notes, last'.key, e)) ]_vars

\* C13: the start timestamp is set only by the first frame after a start, to
\* that frame's timestamp, and then kept; the currentTime of that frame is 0
\* and the time since the latch never decreases and is never negative.
C13_LatchedOncePerSession ==
    [][ /\ (last'.op = "frame" /\ startTimeRef = 0)
            => (startTimeRef' = now /\ last'.currentTime = 0)
        /\ (last'.op = "frame" /\ startTimeRef # 0)
            => (startTimeRef' = startTimeRef /\ last'.currentTime = Elapsed)
        /\ (last'.op = "frame") => last'.currentTime >= 0
        /\ (last'.op \notin {"frame", "start"}) => startTimeRef' = startTimeRef
        /\ (startTimeRef # 0 /\ last'.op # "start")
            => (now' - startTimeRef' >= Elapsed /\ Elapsed >= 0) ]_vars

C13_Witness ==
    /\ last.op = "frame"
    /\ last.currentTime = 2050
    /\ startTimeRef = 100

\* C14: the y at which a frame draws each note is
\* (note.time - currentTime) * 200 + canvas.height - 50 for that frame's
\* currentTime.
C14_DrawsRepositionedNotes ==
    (last.op = "frame" /\ mounted) =>
        /\ Len(last.drawn) = Len(shown)
        /\ \A i \in 1..Len(shown) :
              last.drawn[i] = NoteY(shown[i], last.currentTime, canvasHeight)

\* C15: at most one frame callback is pending, and none while isPlaying is
\* false or after the component is torn down.
C15_OneFramePending ==
    /\ Cardinality(rafPending) <= 1
    /\ ~isPlaying => rafPending = {}
    /\ ~mounted => rafPending = {}

C15_Witness ==
    /\ ~mounted
    /\ isPlaying
    /\ animationRef # 0
    /\ last.op = "unmount"
    /\ rafPending = {}

\* C16: after a frame with currentTime e every active note has
\* y = (time - e) * 200 + canvas.height - 50 (here in thousandths of a pixel),
\* so y is canvas.height - 50 exactly when e is the note's time, whatever the
\* canvas width.
C16_PositionFromElapsed ==
    (last.op = "frame" /\ mounted) =>
        \A i \in 1..Len(notes) :
            /\ notes[i].y = (notes[i].time - last.currentTime) * 200
                              + (canvasHeight - 50) * 1000
            /\ (notes[i].y = (canvasHeight - 50) * 1000)
                  <=> (last.currentTime = notes[i].time)

C16_Witness ==
    /\ last.op = "frame"
    /\ canvasWidth = 800
    /\ Len(notes) = 1
    /\ last.currentTime = notes[1].time
    /\ notes[1].y = (canvasHeight - 50) * 1000

\* C17: for the only active note, of the pressed direction, an input at an
\* elapsed time 0.149 s from the note's time registers a hit, and one 0.150 s
\* or 0.151 s away does not.
C17_OpenHitWindow ==
    [][ ( /\ last'.op = "touch"
          /\ isPlaying
          /\ startTimeRef # 0
          /\ shown = notes
          /\ Len(notes) = 1
          /\ notes[1].direction = ARROW_KEYS(last'.key) )
        => /\ Abs(notes[1].time - Elapsed) = 149
                => (score' = score + 100 /\ notes' = << >>)
           /\ Abs(notes[1].time - Elapsed) \in {150, 151}
                => (score' = score /\ notes' = notes) ]_vars

\* C18: once isPlaying is true it stays true, and while the component is
\* mounted and playing a frame callback is always pending.
C18_PlayingNeverEnds ==
    [][ /\ isPlaying => isPlaying'
        /\ (isPlaying' /\ mounted') => Cardinality(rafPending') = 1 ]_vars

C18_Witness ==
    /\ isPlaying
    /\ mounted
    /\ last.op = "frame"
    /\ Len(lastParsed) > 0
    /\ notes = << >>
    /\ score > 0

\* C19: a load of an url that is no longer the current midiUrl never
\* replaces the installed track of the current midiUrl.
C19_LastRequestedWins ==
    [][ ( /\ last'.op = "loaded"
          /\ inflight'[midiUrl] = inflight[midiUrl]
          /\ Entries(lastParsed) = Entries(MidiNotes(midiUrl)) )
        => Entries(notes') = Entries(notes) ]_vars

====
